---- MODULE Spec2Model ----
(***************************************************************************)
(* Template selection, interface derivation and rendering of the CIENA     *)
(* commissioning config generator (src/generator.py, driven by src/app.py).*)
(*                                                                         *)
(* Python strings are sequences of one-character strings, so formatting,   *)
(* trimming, splitting and truncation are computed character by character.*)
(* Python's None is the one-element sequence <<"None">>, which no string   *)
(* of characters equals.                                                   *)
(***************************************************************************)
EXTENDS Integers, Sequences, FiniteSets, TLC

VARIABLES
    pc,          \* position in the call being executed
    args,        \* arguments of choose_template: model, backhaul, software, role
    available,   \* available_templates: the sorted listing of templates/*.j2
    tpl_used,    \* value returned by choose_template
    hosts,       \* arguments of _derive_interface_name: <<local_host, remote_host>>
    link_id,     \* value returned by _derive_interface_name
    dev,         \* the device record handed to render_device
    interfaces,  \* the list built by _build_interfaces_from_backhaul
    content,     \* the text returned by render_template
    error        \* the exception that left the call, "" when none

vars == <<pc, args, available, tpl_used, hosts, link_id, dev, interfaces, content, error>>

(***************************************************************************)
(* Bounds of the input spaces.                                             *)
(***************************************************************************)
MaxAvail == 3      \* most templates in the catalog

MaxSegments == 2   \* most building blocks concatenated into a hostname

(***************************************************************************)
(* Strings.                                                                *)
(***************************************************************************)
None == <<"None">>

Truthy(x) == x # None /\ x # <<>>

OrEmpty(x) == IF x = None THEN <<>> ELSE x

Whitespace == {" ", "\t"}

RECURSIVE LStrip(_)
LStrip(s) == IF s # <<>> /\ Head(s) \in Whitespace THEN LStrip(Tail(s)) ELSE s

RECURSIVE RStrip(_)
RStrip(s) ==
    IF s # <<>> /\ s[Len(s)] \in Whitespace
    THEN RStrip(SubSeq(s, 1, Len(s) - 1))
    ELSE s

Strip(s) == RStrip(LStrip(s))

RECURSIVE Replace(_, _, _)
Replace(s, old, new) ==
    IF s = <<>> THEN <<>>
    ELSE <<IF Head(s) = old THEN new ELSE Head(s)>> \o Replace(Tail(s), old, new)

InList(x, list) == \E i \in 1..Len(list) : list[i] = x

(***************************************************************************)
(* Template identifiers: the literal pieces of the f-strings.              *)
(***************************************************************************)
TplPrefix == <<"c", "i", "e", "n", "a", "_">>

TplSuffix == <<".", "c", "f", "g", ".", "j", "2">>

Sep == <<"_">>

BackhaulWord == <<"_", "b", "a", "c", "k", "h", "a", "u", "l">>

SAOS6 == <<"s", "a", "o", "s", "6">>

SAOS8 == <<"s", "a", "o", "s", "8">>

SAOS10 == <<"s", "a", "o", "s", "1", "0">>

GenericTemplate == TplPrefix \o <<"g", "e", "n", "e", "r", "i", "c">> \o TplSuffix

Saos10Template == TplPrefix \o SAOS10 \o TplSuffix

Saos6Template == TplPrefix \o SAOS6 \o TplSuffix

(***************************************************************************)
(* choose_template: the candidate list in the order the code appends it,   *)
(* the first candidate that is in available_templates, else the first      *)
(* available template, else the generic identifier.                        *)
(***************************************************************************)
\* Candidates with the software-family templates tried first.
Candidates_SoftwareFirst(model, backhaul, software, role) ==
    (IF software = SAOS10 THEN <<Saos10Template>> ELSE <<>>)
    \o
    (IF software = SAOS6 THEN <<Saos6Template>> ELSE <<>>)
    \o
    (IF model # <<>> /\ software # <<>>
     THEN <<TplPrefix \o model \o Sep \o software \o TplSuffix>> ELSE <<>>)
    \o
    (IF model # <<>> /\ software # <<>> /\ backhaul # <<>>
     THEN <<TplPrefix \o model \o Sep \o software \o Sep \o backhaul \o TplSuffix>>
     ELSE <<>>)
    \o
    (IF model # <<>> THEN <<TplPrefix \o model \o TplSuffix>> ELSE <<>>)
    \o
    <<GenericTemplate>>

\* Candidates with the legacy model+backhaul templates tried before the
\* software-family templates.
Candidates_LegacyFirst(model, backhaul, software, role) ==
    (IF model # <<>> /\ software # <<>>
     THEN <<TplPrefix \o model \o Sep \o software \o TplSuffix>> ELSE <<>>)
    \o
    (IF model # <<>> /\ software # <<>> /\ backhaul # <<>>
     THEN <<TplPrefix \o model \o Sep \o software \o Sep \o backhaul \o TplSuffix>>
     ELSE <<>>)
    \o
    (IF model # <<>> /\ backhaul # <<>>
     THEN <<TplPrefix \o model \o Sep \o backhaul \o TplSuffix>> ELSE <<>>)
    \o
    (IF software = SAOS10 THEN <<Saos10Template>> ELSE <<>>)
    \o
    (IF software = SAOS6 THEN <<Saos6Template>> ELSE <<>>)
    \o
    (IF model # <<>> THEN <<TplPrefix \o model \o TplSuffix>> ELSE <<>>)
    \o
    <<GenericTemplate>>

\* Candidates with the model+role template tried before the model+backhaul
\* templates.
Candidates_RoleFirst(model, backhaul, software, role) ==
    (IF model # <<>> /\ software # <<>>
     THEN <<TplPrefix \o model \o Sep \o software \o TplSuffix>> ELSE <<>>)
    \o
    (IF model # <<>> /\ software # <<>> /\ backhaul # <<>>
     THEN <<TplPrefix \o model \o Sep \o software \o Sep \o backhaul \o TplSuffix>>
     ELSE <<>>)
    \o
    (IF software = SAOS10 THEN <<Saos10Template>> ELSE <<>>)
    \o
    (IF software = SAOS6 THEN <<Saos6Template>> ELSE <<>>)
    \o
    (IF model # <<>> /\ role # <<>>
     THEN <<TplPrefix \o model \o Sep \o role \o TplSuffix>> ELSE <<>>)
    \o
    (IF model # <<>> /\ backhaul # <<>>
     THEN << TplPrefix \o model \o Sep \o backhaul \o TplSuffix,
             TplPrefix \o model \o Sep \o backhaul \o BackhaulWord \o TplSuffix,
             TplPrefix \o model \o Sep \o Replace(backhaul, "-", "_") \o TplSuffix >>
     ELSE <<>>)
    \o
    (IF model # <<>> THEN <<TplPrefix \o model \o TplSuffix>> ELSE <<>>)
    \o
    <<GenericTemplate>>

Candidates(model, backhaul, software, role) ==
    (IF model # <<>> /\ software # <<>>
     THEN <<TplPrefix \o model \o Sep \o software \o TplSuffix>> ELSE <<>>)
    \o
    (IF model # <<>> /\ software # <<>> /\ backhaul # <<>>
     THEN <<TplPrefix \o model \o Sep \o software \o Sep \o backhaul \o TplSuffix>>
     ELSE <<>>)
    \o
    (IF software = SAOS10 THEN <<Saos10Template>> ELSE <<>>)
    \o
    (IF software = SAOS6 THEN <<Saos6Template>> ELSE <<>>)
    \o
    (IF model # <<>> /\ backhaul # <<>>
     THEN << TplPrefix \o model \o Sep \o backhaul \o TplSuffix,
             TplPrefix \o model \o Sep \o backhaul \o BackhaulWord \o TplSuffix,
             TplPrefix \o model \o Sep \o Replace(backhaul, "-", "_") \o TplSuffix >>
     ELSE <<>>)
    \o
    (IF model # <<>> /\ role # <<>>
     THEN <<TplPrefix \o model \o Sep \o role \o TplSuffix>> ELSE <<>>)
    \o
    (IF model # <<>> THEN <<TplPrefix \o model \o TplSuffix>> ELSE <<>>)
    \o
    <<GenericTemplate>>

\* The first candidate, whether or not the catalog holds it.
FirstAvailable_Unchecked(candidates, available_templates) ==
    candidates[1]

FirstAvailable(candidates, available_templates) ==
    LET hits == {i \in 1..Len(candidates) : InList(candidates[i], available_templates)}
    IN  IF hits # {}
        THEN candidates[CHOOSE i \in hits : \A j \in hits : i <= j]
        ELSE None

\* choose_template without the first-available fallback.
choose_template_NoFallback(model, backhaul, software, role, available_templates) ==
    LET hit == FirstAvailable(Candidates(Strip(OrEmpty(model)), Strip(OrEmpty(backhaul)),
                                         Strip(OrEmpty(software)), Strip(OrEmpty(role))),
                              available_templates)
    IN  IF hit # None THEN hit ELSE GenericTemplate

choose_template(model, backhaul, software, role, available_templates) ==
    LET m == Strip(OrEmpty(model))
        b == Strip(OrEmpty(backhaul))
        s == Strip(OrEmpty(software))
        r == Strip(OrEmpty(role))
        hit == FirstAvailable(Candidates(m, b, s, r), available_templates)
    IN  IF hit # None THEN hit
        ELSE IF available_templates # <<>> THEN available_templates[1]
        ELSE GenericTemplate

(***************************************************************************)
(* Inputs of choose_template.                                              *)
(***************************************************************************)
M3916 == <<"3", "9", "1", "6">>

M9999 == <<"9", "9", "9", "9">>

Single == <<"s", "i", "n", "g", "l", "e">>

Dual == <<"d", "u", "a", "l">>

DualRing == <<"d", "u", "a", "l", "-", "r", "i", "n", "g">>

Edge == <<"e", "d", "g", "e">>

Models == {<<>>, <<" ">>, M3916, <<" ">> \o M3916 \o <<" ">>, M9999}

Softwares == {<<>>, SAOS6, SAOS8, SAOS10, SAOS6 \o <<" ">>}

Backhauls == {<<>>, <<" ">>, Single, Dual, DualRing}

EdgeCapital == <<"E", "d", "g", "e">>

Roles == {<<>>, <<"\t">>, Edge, EdgeCapital}

\* The templates directory holds some of these files; list_templates sorts
\* the names, and the pool is written in that order.
TemplatePool ==
    << <<"a", "a", "a", "_", "s", "i", "t", "e", ".", "j", "2">>,
       TplPrefix \o M3916 \o TplSuffix,
       TplPrefix \o M3916 \o <<"_">> \o Dual \o TplSuffix,
       TplPrefix \o M3916 \o <<"_">> \o Dual \o BackhaulWord \o TplSuffix,
       TplPrefix \o M3916 \o <<"_", "d", "u", "a", "l", "_", "r", "i", "n", "g">> \o TplSuffix,
       TplPrefix \o M3916 \o <<"_">> \o Edge \o TplSuffix,
       TplPrefix \o M3916 \o <<"_">> \o SAOS6 \o TplSuffix,
       TplPrefix \o M3916 \o <<"_">> \o SAOS6 \o <<"_">> \o Dual \o TplSuffix,
       GenericTemplate,
       Saos10Template,
       Saos6Template,
       TplPrefix \o SAOS8 \o TplSuffix >>

RECURSIVE Pick(_, _)
Pick(I, from) ==
    IF from > Len(TemplatePool) THEN <<>>
    ELSE (IF from \in I THEN <<TemplatePool[from]>> ELSE <<>>) \o Pick(I, from + 1)

list_templates ==
    {Pick(I, 1) : I \in {J \in SUBSET (1..Len(TemplatePool)) : Cardinality(J) <= MaxAvail}}

(***************************************************************************)
(* A direct call of choose_template.                                       *)
(***************************************************************************)
NoDevice == [hostname |-> <<>>]

InitSelect ==
    /\ pc = "choose_template"
    /\ args \in [model : Models, backhaul : Backhauls, software : Softwares, role : Roles]
    /\ available \in list_templates
    /\ tpl_used = None
    /\ hosts = <<<<>>, <<>>>>
    /\ link_id = None
    /\ dev = NoDevice
    /\ interfaces = <<>>
    /\ content = None
    /\ error = ""

ChooseTemplate ==
    /\ pc = "choose_template"
    /\ tpl_used' = choose_template(args.model, args.backhaul, args.software, args.role, available)
    /\ pc' = "returned"
    /\ UNCHANGED <<args, available, hosts, link_id, dev, interfaces, content, error>>

NextSelect == ChooseTemplate

SpecSelect == InitSelect /\ [][NextSelect]_vars

(***************************************************************************)
(* _derive_interface_name and its helpers clean_id and get_model.          *)
(***************************************************************************)
NameLimit == 15

ShortLen == 7

Digits == {"0", "1", "2", "3", "4", "5", "6", "7", "8", "9"}

Letters ==
    {"a", "b", "c", "d", "e", "f", "g", "h", "i", "j", "k", "l", "m",
     "n", "o", "p", "q", "r", "s", "t", "u", "v", "w", "x", "y", "z",
     "A", "B", "C", "D", "E", "F", "G", "H", "I", "J", "K", "L", "M",
     "N", "O", "P", "Q", "R", "S", "T", "U", "V", "W", "X", "Y", "Z"}

\* str.isalpha()
IsAlpha(s) == s # <<>> /\ \A i \in 1..Len(s) : s[i] \in Letters

\* s[:n]
Prefix(s, n) == SubSeq(s, 1, IF Len(s) < n THEN Len(s) ELSE n)

\* str.split(sep) for a one-character separator
RECURSIVE Split(_, _)
Split(s, sep) ==
    LET at == {i \in 1..Len(s) : s[i] = sep}
    IN  IF at = {} THEN <<s>>
        ELSE LET i == CHOOSE k \in at : \A j \in at : k <= j
             IN  <<SubSeq(s, 1, i - 1)>> \o Split(SubSeq(s, i + 1, Len(s)), sep)

\* Length of the alternative of (_39\d{2}|_51\d{2}|_81\d{2}|_0\d|-0\d) that
\* matches at position i of s, 0 when none does.
SuffixUnitAt(s, i) ==
    IF /\ i + 4 <= Len(s)
       /\ s[i] = "_"
       /\ <<s[i + 1], s[i + 2]>> \in {<<"3", "9">>, <<"5", "1">>, <<"8", "1">>}
       /\ s[i + 3] \in Digits
       /\ s[i + 4] \in Digits
    THEN 5
    ELSE IF /\ i + 2 <= Len(s)
            /\ s[i] \in {"_", "-"}
            /\ s[i + 1] = "0"
            /\ s[i + 2] \in Digits
    THEN 3
    ELSE 0

\* (...)+$ matches at position i: one or more alternatives up to the end.
RECURSIVE SuffixRunAt(_, _)
SuffixRunAt(s, i) ==
    LET n == SuffixUnitAt(s, i)
    IN  n > 0 /\ (i + n = Len(s) + 1 \/ SuffixRunAt(s, i + n))

\* re.sub with a pattern that never matches.
StripModelSuffix_NoMatch(s) == s

\* re.sub(r'(...)+$', '', hostname): the leftmost match is removed.
StripModelSuffix(s) ==
    LET starts == {i \in 1..Len(s) : SuffixRunAt(s, i)}
    IN  IF starts = {} THEN s
        ELSE SubSeq(s, 1, (CHOOSE k \in starts : \A j \in starts : k <= j) - 1)

\* clean_id without the single-character-first-part rule.
clean_id_FirstPartOnly(hostname) ==
    LET parts_dash == Split(hostname, "-")
    IN  IF Len(parts_dash) >= 3 /\ Len(parts_dash[2]) = 3 /\ IsAlpha(parts_dash[2])
        THEN parts_dash[2]
        ELSE Split(StripModelSuffix(hostname), "_")[1]

clean_id(hostname) ==
    LET parts_dash == Split(hostname, "-")
    IN  IF Len(parts_dash) >= 3 /\ Len(parts_dash[2]) = 3 /\ IsAlpha(parts_dash[2])
        THEN parts_dash[2]
        ELSE LET base == StripModelSuffix(hostname)
                 parts_score == Split(base, "_")
             IN  IF Len(parts_score) > 1 /\ Len(parts_score[1]) = 1
                 THEN parts_score[1] \o <<"_">> \o parts_score[2]
                 ELSE parts_score[1]

\* re.search(r'(\d{4})', hostname)
get_model(hostname) ==
    LET at == {i \in 1..(Len(hostname) - 3) :
                  \A k \in 0..3 : hostname[i + k] \in Digits}
    IN  IF at = {} THEN <<>>
        ELSE LET i == CHOOSE k \in at : \A j \in at : k <= j
             IN  SubSeq(hostname, i, i + 3)

\* _derive_interface_name returning the candidate without the model even
\* when it is too long.
derive_interface_name_NoTruncation(local_host, remote_host) ==
    IF ~Truthy(local_host) \/ ~Truthy(remote_host) THEN <<>>
    ELSE LET full == clean_id(local_host) \o <<"-">> \o clean_id(remote_host)
                         \o get_model(remote_host)
         IN  IF Len(full) <= NameLimit THEN full
             ELSE clean_id(local_host) \o <<"-">> \o clean_id(remote_host)

\* _derive_interface_name with the limits tested by < instead of <=.
derive_interface_name_StrictLimit(local_host, remote_host) ==
    IF ~Truthy(local_host) \/ ~Truthy(remote_host) THEN <<>>
    ELSE LET full == clean_id(local_host) \o <<"-">> \o clean_id(remote_host)
                         \o get_model(remote_host)
             plain == clean_id(local_host) \o <<"-">> \o clean_id(remote_host)
         IN  IF Len(full) < NameLimit THEN full
             ELSE IF Len(plain) < NameLimit THEN plain
             ELSE Prefix(clean_id(local_host), ShortLen - 1) \o <<"-">>
                      \o Prefix(clean_id(remote_host), ShortLen - 1)

derive_interface_name(local_host, remote_host) ==
    IF ~Truthy(local_host) \/ ~Truthy(remote_host) THEN <<>>
    ELSE LET local_id == clean_id(local_host)
             remote_id == clean_id(remote_host)
             remote_model == get_model(remote_host)
             full == local_id \o <<"-">> \o remote_id \o remote_model
             plain == local_id \o <<"-">> \o remote_id
         IN  IF Len(full) <= NameLimit THEN full
             ELSE IF Len(plain) <= NameLimit THEN plain
             ELSE Prefix(local_id, ShortLen) \o <<"-">> \o Prefix(remote_id, ShortLen)

(***************************************************************************)
(* Hostnames: the examples of the two naming conventions, and every        *)
(* concatenation of at most MaxSegments of their building blocks.          *)
(***************************************************************************)
HostAjo == <<"N", "G", "A", "-", "A", "J", "O", "-", "C", "N", "A", "5", "1", "3", "0", "-", "0", "1">>

HostIkj == <<"N", "G", "A", "-", "I", "K", "J", "-", "C", "N", "A", "8", "1", "1", "4", "-", "0", "1">>

HostSteel == <<"A", "_", "s", "t", "e", "e", "l", "_", "s", "a", "g", "a", "m", "u", "_", "3", "9", "0", "3">>

HostOther == <<"B", "_", "o", "t", "h", "e", "r", "_", "s", "i", "t", "e", "_", "3", "9", "1", "6">>

HostDefault == <<"C", "I", "E", "N", "A", "-", "0", "1">>

HostLong == <<"S", "a", "g", "a", "m", "u", "r", "o", "a", "d", "_", "I", "n", "t", "e", "r", "c", "h", "a", "n", "g", "e", "_", "5", "1", "4", "2", "-", "0", "1">>

Segments ==
    << <<"N", "G", "A">>,
       <<"-", "A", "J", "O">>,
       <<"-", "0", "1">>,
       <<"A">>,
       <<"_", "s", "t", "e", "e", "l">>,
       <<"_", "3", "9", "0", "3">>,
       <<"S", "a", "g", "a", "m", "u", "r", "o", "a", "d">> >>

RECURSIVE Concats(_)
Concats(n) ==
    IF n = 0 THEN {<<>>}
    ELSE Concats(n - 1)
         \cup {h \o Segments[k] : h \in Concats(n - 1), k \in 1..Len(Segments)}

Hostnames ==
    Concats(MaxSegments)
    \cup {HostAjo, HostIkj, HostSteel, HostOther, HostDefault, HostLong}

(***************************************************************************)
(* A direct call of _derive_interface_name.                                *)
(***************************************************************************)
InitLink ==
    /\ pc = "derive_interface_name"
    /\ hosts \in Hostnames \X Hostnames
    /\ link_id = None
    /\ args = [model |-> <<>>, backhaul |-> <<>>, software |-> <<>>, role |-> <<>>]
    /\ available = <<>>
    /\ tpl_used = None
    /\ dev = NoDevice
    /\ interfaces = <<>>
    /\ content = None
    /\ error = ""

DeriveInterfaceName ==
    /\ pc = "derive_interface_name"
    /\ link_id' = derive_interface_name(hosts[1], hosts[2])
    /\ pc' = "returned"
    /\ UNCHANGED <<args, available, tpl_used, hosts, dev, interfaces, content, error>>

NextLink == DeriveInterfaceName

SpecLink == InitLink /\ [][NextLink]_vars

(***************************************************************************)
(* Device records.  dev[f"{prefix}_port"] is dev.port[prefix], and likewise *)
(* for the other per-role fields.  A port value carries whether it is a    *)
(* list; a list-valued field carries whether the key is present.           *)
(***************************************************************************)
PortPrefix == <<"P", "o", "r", "t", "_">>

PortBH == <<"P", "o", "r", "t", "_", "B", "H">>

RoleNames == {"single", "primary", "secondary"}

StrPort(s) == [is_list |-> FALSE, value |-> s, members |-> <<>>]

ListPort(l) == [is_list |-> TRUE, value |-> None, members |-> l]

Missing == [present |-> FALSE, items |-> <<>>]

Given(l) == [present |-> TRUE, items |-> l]

\* dev.get("other_interfaces") or []
OrEmptyList(l) == IF l.present THEN l.items ELSE <<>>

StartsWith(s, p) == Len(s) >= Len(p) /\ SubSeq(s, 1, Len(p)) = p

\* dev.get("backhaul", "") or ""
BackhaulOf(d) == OrEmpty(d.backhaul)

\* normalize_port that reduces a list to its last member.
normalize_port_LastMember(port_raw) ==
    IF port_raw.is_list
    THEN (IF port_raw.members # <<>> THEN port_raw.members[Len(port_raw.members)] ELSE <<>>)
    ELSE OrEmpty(port_raw.value)

normalize_port(port_raw) ==
    IF port_raw.is_list
    THEN (IF port_raw.members # <<>> THEN port_raw.members[1] ELSE <<>>)
    ELSE OrEmpty(port_raw.value)

\* smart_name of create_iface
smart_name(d, prefix) ==
    IF Truthy(d.neighbor_name[prefix])
    THEN derive_interface_name(d.hostname, d.neighbor_name[prefix])
    ELSE <<>>

\* final_name with the synthesized identifier preferred whenever it exists.
final_name_SmartFirst(d, prefix) ==
    IF smart_name(d, prefix) # <<>> THEN smart_name(d, prefix)
    ELSE IF Truthy(d.if_name[prefix]) THEN d.if_name[prefix]
    ELSE IF normalize_port(d.port[prefix]) # <<>>
         THEN PortPrefix \o normalize_port(d.port[prefix])
    ELSE PortBH

\* final_name with any non-empty manual name kept, placeholders included.
final_name_ManualFirst(d, prefix) ==
    IF Truthy(d.if_name[prefix]) THEN d.if_name[prefix]
    ELSE IF smart_name(d, prefix) # <<>> THEN smart_name(d, prefix)
    ELSE IF normalize_port(d.port[prefix]) # <<>>
         THEN PortPrefix \o normalize_port(d.port[prefix])
    ELSE PortBH

\* final_name of create_iface
final_name(d, prefix) ==
    LET port == normalize_port(d.port[prefix])
        manual_name == d.if_name[prefix]
        is_default_name == ~Truthy(manual_name) \/ StartsWith(manual_name, PortPrefix)
    IN  IF smart_name(d, prefix) # <<>> /\ is_default_name
        THEN smart_name(d, prefix)
        ELSE IF Truthy(manual_name) THEN manual_name
        ELSE IF port # <<>> THEN PortPrefix \o port
        ELSE PortBH

\* The exception the "port" entry of create_iface raises, "" when none:
\* dev.get("aggregations")[idx]["name"] on a missing or too short list.
create_iface_error(d, idx) ==
    IF d.aggregation_enabled /\ BackhaulOf(d) = Dual
    THEN (IF ~d.aggregations.present THEN "TypeError"
          ELSE IF Len(d.aggregations.items) <= idx THEN "IndexError"
          ELSE "")
    ELSE ""

\* create_iface taking the first aggregation group for every dual role.
create_iface_FirstAggregation(d, prefix, idx) ==
    [ name           |-> final_name(d, prefix),
      description    |-> "BACKHAUL",
      vlan           |-> d.vlan[prefix],
      ip             |-> d.ip[prefix],
      mtu            |-> d.mtu[prefix],
      port           |-> IF d.aggregation_enabled /\ BackhaulOf(d) = Single
                         THEN d.aggregation_name
                         ELSE IF d.aggregation_enabled /\ BackhaulOf(d) = Dual
                         THEN d.aggregations.items[1].name
                         ELSE normalize_port(d.port[prefix]),
      neighbor_name  |-> d.neighbor_name[prefix],
      neighbor_port  |-> d.neighbor_port[prefix],
      neighbor_ip    |-> d.neighbor_ip[prefix],
      saos10_link_id |-> smart_name(d, prefix) ]

create_iface(d, prefix, idx) ==
    [ name           |-> final_name(d, prefix),
      description    |-> "BACKHAUL",
      vlan           |-> d.vlan[prefix],
      ip             |-> d.ip[prefix],
      mtu            |-> d.mtu[prefix],
      port           |-> IF d.aggregation_enabled /\ BackhaulOf(d) = Single
                         THEN d.aggregation_name
                         ELSE IF d.aggregation_enabled /\ BackhaulOf(d) = Dual
                         THEN d.aggregations.items[idx + 1].name
                         ELSE normalize_port(d.port[prefix]),
      neighbor_name  |-> d.neighbor_name[prefix],
      neighbor_port  |-> d.neighbor_port[prefix],
      neighbor_ip    |-> d.neighbor_ip[prefix],
      saos10_link_id |-> smart_name(d, prefix) ]

(***************************************************************************)
(* Device records handed to render_device.                                 *)
(***************************************************************************)
MaxOther == 2      \* most pre-built interfaces in other_interfaces

LongIfName == <<"u", "p", "l", "i", "n", "k", "-", "t", "o", "-", "c", "o", "r", "e", "-", "0", "1">>

IfNames == {None, PortPrefix \o <<"1">>, <<"u", "p", "l", "i", "n", "k", "1">>, LongIfName}

NeighborNames == {None, <<>>, HostIkj}

Ports == {StrPort(None), StrPort(<<"1">>), ListPort(<<>>), ListPort(<< <<"3">>, <<"4">> >>)}

Agg1 == [name |-> <<"P", "r", "i", "m", "a", "r", "y", "A", "g", "g">>, members |-> << <<"3">>, <<"4">> >>]

Agg2 == [name |-> None, members |-> <<>>]

AggregationLists == {Missing, Given(<<>>), Given(<<Agg1>>), Given(<<Agg1, Agg2>>)}

OtherInterface(n) ==
    [ name           |-> <<"e", "t", "h">> \o <<n>>,
      description    |-> "CUSTOMER",
      vlan           |-> None,
      ip             |-> None,
      mtu            |-> None,
      port           |-> <<n>>,
      neighbor_name  |-> None,
      neighbor_port  |-> None,
      neighbor_ip    |-> None,
      saos10_link_id |-> <<>> ]

OtherPool == <<OtherInterface("7"), OtherInterface("8"), OtherInterface("9"), OtherInterface("5")>>

OtherLists ==
    {Missing} \cup {Given(SubSeq(OtherPool, 1, n)) : n \in 0..MaxOther}

\* The roles whose fields a device with this backhaul carries.
RolesOf(backhaul) ==
    IF backhaul = Single THEN {"single"}
    ELSE IF backhaul = Dual THEN {"primary", "secondary"}
    ELSE {}

PerRole(backhaul, values, absent) ==
    {f \in [RoleNames -> values \cup {absent}] :
        \A r \in RoleNames : r \notin RolesOf(backhaul) => f[r] = absent}

Passthrough(backhaul, tag) ==
    [r \in RoleNames |-> IF r \in RolesOf(backhaul) THEN <<tag, r>> ELSE None]

Devices ==
    UNION {
        [ hostname            : {<<>>, HostAjo},
          model               : {M3916},
          software_version    : {SAOS6},
          role                : {None},
          backhaul            : {b},
          aggregation_enabled : BOOLEAN,
          aggregation_name    : IF b = Single THEN {None, <<"A", "g", "g", "_", "1">>} ELSE {None},
          aggregations        : IF b = Dual THEN AggregationLists ELSE {Missing},
          other_interfaces    : OtherLists,
          port                : PerRole(b, Ports, StrPort(None)),
          if_name             : PerRole(b, IfNames, None),
          neighbor_name       : PerRole(b, NeighborNames, None),
          vlan                : {Passthrough(b, "vlan")},
          ip                  : {Passthrough(b, "ip")},
          mtu                 : {Passthrough(b, "mtu")},
          neighbor_port       : {Passthrough(b, "neighbor_port")},
          neighbor_ip         : {Passthrough(b, "neighbor_ip")} ]
        : b \in {<<>>, Single, Dual} }

(***************************************************************************)
(* render_device: _build_interfaces_from_backhaul, choose_template and     *)
(* render_template, one step each.                                         *)
(***************************************************************************)
Init ==
    /\ pc = "build_interfaces"
    /\ dev \in Devices
    /\ available \in {<<>>, <<Saos6Template>>}
    /\ interfaces = <<>>
    /\ args = [model |-> <<>>, backhaul |-> <<>>, software |-> <<>>, role |-> <<>>]
    /\ tpl_used = None
    /\ hosts = <<<<>>, <<>>>>
    /\ link_id = None
    /\ content = None
    /\ error = ""

Raise(e) ==
    /\ pc' = "raised"
    /\ error' = e
    /\ UNCHANGED <<args, available, tpl_used, hosts, link_id, dev, interfaces, content>>

\* if backhaul == "single": interfaces.append(create_iface("single", 0))
BuildSingle ==
    /\ pc = "build_interfaces"
    /\ BackhaulOf(dev) = Single
    /\ IF create_iface_error(dev, 0) # ""
       THEN Raise(create_iface_error(dev, 0))
       ELSE /\ interfaces' = Append(interfaces, create_iface(dev, "single", 0))
            /\ pc' = "extend_other"
            /\ UNCHANGED <<args, available, tpl_used, hosts, link_id, dev, content, error>>

\* elif backhaul == "dual": interfaces.append(create_iface("primary", 0))
BuildPrimary ==
    /\ pc = "build_interfaces"
    /\ BackhaulOf(dev) = Dual
    /\ IF create_iface_error(dev, 0) # ""
       THEN Raise(create_iface_error(dev, 0))
       ELSE /\ interfaces' = Append(interfaces, create_iface(dev, "primary", 0))
            /\ pc' = "build_secondary"
            /\ UNCHANGED <<args, available, tpl_used, hosts, link_id, dev, content, error>>

\* interfaces.append(create_iface("secondary", 1))
BuildSecondary ==
    /\ pc = "build_secondary"
    /\ IF create_iface_error(dev, 1) # ""
       THEN Raise(create_iface_error(dev, 1))
       ELSE /\ interfaces' = Append(interfaces, create_iface(dev, "secondary", 1))
            /\ pc' = "extend_other"
            /\ UNCHANGED <<args, available, tpl_used, hosts, link_id, dev, content, error>>

\* neither branch of the if/elif is taken
BuildNone ==
    /\ pc = "build_interfaces"
    /\ BackhaulOf(dev) \notin {Single, Dual}
    /\ pc' = "extend_other"
    /\ UNCHANGED <<args, available, tpl_used, hosts, link_id, dev, interfaces, content, error>>

\* interfaces.extend(dev.get("other_interfaces") or []); return interfaces
ExtendOther ==
    /\ pc = "extend_other"
    /\ interfaces' = interfaces \o OrEmptyList(dev.other_interfaces)
    /\ pc' = "choose_template"
    /\ UNCHANGED <<args, available, tpl_used, hosts, link_id, dev, content, error>>

\* tpl_used = choose_template(model, dev.get("backhaul", ""), ...)
SelectTemplate ==
    /\ pc = "choose_template"
    /\ args' = [ model    |-> Strip(OrEmpty(dev.model)),
                 backhaul |-> dev.backhaul,
                 software |-> dev.software_version,
                 role     |-> dev.role ]
    /\ tpl_used' = choose_template(args'.model, args'.backhaul, args'.software,
                                   args'.role, available)
    /\ pc' = "render_template"
    /\ UNCHANGED <<available, hosts, link_id, dev, interfaces, content, error>>

\* env.get_template(template_name) finds the file; tmpl.render(**context)
\* produces the text.
RenderTemplate ==
    /\ pc = "render_template"
    /\ InList(tpl_used, available)
    /\ content' = <<"rendered">> \o tpl_used
    /\ pc' = "returned"
    /\ UNCHANGED <<args, available, tpl_used, hosts, link_id, dev, interfaces, error>>

\* env.get_template(template_name) finds no such file in templates/.
RenderTemplateNotFound ==
    /\ pc = "render_template"
    /\ ~InList(tpl_used, available)
    /\ Raise("TemplateNotFound")

\* The file exists and jinja2 fails to compile or render it.
RenderTemplateFails ==
    /\ pc = "render_template"
    /\ InList(tpl_used, available)
    /\ Raise("TemplateError")

Next ==
    \/ BuildSingle
    \/ BuildPrimary
    \/ BuildSecondary
    \/ BuildNone
    \/ ExtendOther
    \/ SelectTemplate
    \/ RenderTemplate
    \/ RenderTemplateNotFound
    \/ RenderTemplateFails

Spec == Init /\ [][Next]_vars

(***************************************************************************)
(* Template selection: the identifiers the specification's candidate list  *)
(* names, built from the trimmed attributes of the call.                   *)
(***************************************************************************)
ArgModel == Strip(args.model)

ArgBackhaul == Strip(args.backhaul)

ArgSoftware == Strip(args.software)

ArgRole == Strip(args.role)

IdModelSoftwareBackhaul ==
    TplPrefix \o ArgModel \o <<"_">> \o ArgSoftware \o <<"_">> \o ArgBackhaul \o TplSuffix

IdModelSoftware == TplPrefix \o ArgModel \o <<"_">> \o ArgSoftware \o TplSuffix

IdSoftware == TplPrefix \o ArgSoftware \o TplSuffix

IdModelBackhaul == TplPrefix \o ArgModel \o <<"_">> \o ArgBackhaul \o TplSuffix

IdModelRole == TplPrefix \o ArgModel \o <<"_">> \o ArgRole \o TplSuffix

IdModel == TplPrefix \o ArgModel \o TplSuffix

IdLegacyBackhaulWord ==
    TplPrefix \o ArgModel \o <<"_">> \o ArgBackhaul \o BackhaulWord \o TplSuffix

IdLegacyUnderscored ==
    TplPrefix \o ArgModel \o <<"_">> \o Replace(ArgBackhaul, "-", "_") \o TplSuffix

Has(id) == InList(id, available)

SelectReturned == pc = "returned" /\ tpl_used # None

AllThreeGiven == ArgModel # <<>> /\ ArgSoftware # <<>> /\ ArgBackhaul # <<>>

\* The seven candidates of the specification, each present when the
\* attributes it is built from are non-empty.
SevenCandidates ==
    (IF AllThreeGiven THEN {IdModelSoftwareBackhaul} ELSE {})
    \cup (IF ArgModel # <<>> /\ ArgSoftware # <<>> THEN {IdModelSoftware} ELSE {})
    \cup (IF ArgSoftware # <<>> THEN {IdSoftware} ELSE {})
    \cup (IF ArgModel # <<>> /\ ArgBackhaul # <<>> THEN {IdModelBackhaul} ELSE {})
    \cup (IF ArgModel # <<>> /\ ArgRole # <<>> THEN {IdModelRole} ELSE {})
    \cup (IF ArgModel # <<>> THEN {IdModel} ELSE {})
    \cup {GenericTemplate}

LegacyVariants ==
    IF ArgModel # <<>> /\ ArgBackhaul # <<>>
    THEN {IdLegacyBackhaulWord, IdLegacyUnderscored}
    ELSE {}

FirstOrGeneric == IF available # <<>> THEN available[1] ELSE GenericTemplate

\* C1 (as claimed): whenever the model+software+backhaul identifier is in
\* available, choose_template returns it, also when the model+software
\* identifier is in available too.
C1_MostSpecificAlwaysWins ==
    (SelectReturned /\ AllThreeGiven /\ Has(IdModelSoftwareBackhaul))
        => tpl_used = IdModelSoftwareBackhaul

\* C1 (amended): the model+software identifier is tried before the
\* model+software+backhaul identifier: choose_template returns the
\* model+software+backhaul identifier when it is in available and the
\* model+software identifier is not, and the model+software identifier
\* whenever that one is in available.
C1_ModelSoftwareBeforeBackhaul ==
    (SelectReturned /\ AllThreeGiven) =>
        /\ (Has(IdModelSoftwareBackhaul) /\ ~Has(IdModelSoftware))
              => tpl_used = IdModelSoftwareBackhaul
        /\ Has(IdModelSoftware) => tpl_used = IdModelSoftware

C1_Witness ==
    /\ SelectReturned /\ AllThreeGiven
    /\ Has(IdModelSoftwareBackhaul) /\ ~Has(IdModelSoftware) /\ Has(Saos6Template)
    /\ tpl_used = IdModelSoftwareBackhaul

\* C2 (as claimed): for every non-empty software tag the software-only
\* identifier is returned when it is in available and neither the
\* model+software+backhaul nor the model+software identifier is.
C2_AnySoftwareFallback ==
    (SelectReturned /\ ArgSoftware # <<>> /\ Has(IdSoftware)
        /\ ~Has(IdModelSoftwareBackhaul) /\ ~Has(IdModelSoftware))
        => tpl_used = IdSoftware

\* C2 (amended): only for the software tags saos6 and saos10 is the
\* software-only identifier a candidate: for those two it is returned when
\* it is in available and neither the model+software+backhaul nor the
\* model+software identifier is, in preference to the model+backhaul,
\* model+role, model-only and generic identifiers.
C2_Saos6Saos10Fallback ==
    (SelectReturned /\ ArgSoftware \in {SAOS6, SAOS10} /\ Has(IdSoftware)
        /\ ~Has(IdModelSoftwareBackhaul) /\ ~Has(IdModelSoftware))
        => tpl_used = IdSoftware

C2_Witness ==
    /\ SelectReturned /\ ArgSoftware = SAOS6 /\ ArgModel = M3916 /\ ArgBackhaul = Dual
    /\ Has(IdSoftware) /\ Has(IdModelBackhaul) /\ Has(GenericTemplate)
    /\ ~Has(IdModelSoftwareBackhaul) /\ ~Has(IdModelSoftware)
    /\ tpl_used = IdSoftware

\* C3 (as claimed): if none of the seven candidates of the specification is
\* in available, choose_template returns the first entry of available, or
\* the generic identifier when available is empty.
C3_FallbackAfterSeven ==
    (SelectReturned /\ \A id \in SevenCandidates : ~Has(id))
        => tpl_used = FirstOrGeneric

\* C3 (amended): if none of the seven candidates of the specification and
\* neither of the two legacy model+backhaul variants
\* (ciena_{model}_{backhaul}_backhaul.cfg.j2 and ciena_{model}_{backhaul with
\* "-" replaced by "_"}.cfg.j2) is in available, choose_template returns the
\* first entry of available, or the generic identifier when available is
\* empty.
C3_FallbackAfterAllCandidates ==
    (SelectReturned /\ \A id \in SevenCandidates \cup LegacyVariants : ~Has(id))
        => tpl_used = FirstOrGeneric

C3_Witness ==
    /\ SelectReturned /\ ArgModel = M3916 /\ ArgBackhaul = Single
    /\ \A id \in SevenCandidates \cup LegacyVariants : ~Has(id)
    /\ Len(available) >= 2
    /\ tpl_used = available[1]

\* C4: choose_template returns without raising, for every combination of
\* attributes (empty and whitespace-only ones included) and every catalog;
\* the identifier is non-empty, a member of available when available is
\* non-empty, and the generic identifier when available is empty.
C4_AlwaysUsableTemplate ==
    pc = "returned" =>
        /\ error = ""
        /\ tpl_used # None /\ tpl_used # <<>>
        /\ available # <<>> => Has(tpl_used)
        /\ available = <<>> => tpl_used = GenericTemplate

C4_Witness ==
    /\ SelectReturned /\ args.model = <<" ">> /\ args.software = SAOS8
    /\ available # <<>> /\ ~Has(GenericTemplate)
    /\ Has(tpl_used)

(***************************************************************************)
(* Link identifiers.                                                       *)
(***************************************************************************)
LinkReturned == pc = "returned" /\ link_id # None

\* C6: _derive_interface_name returns at most 15 characters for every pair
\* of non-empty hostnames, and the empty string when the local or the
\* remote hostname is empty.
C6_LinkIdAtMost15 ==
    LinkReturned =>
        /\ Len(link_id) <= 15
        /\ (hosts[1] = <<>> \/ hosts[2] = <<>>) => link_id = <<>>

C6_Witness ==
    /\ LinkReturned
    /\ hosts[1] # <<>> /\ hosts[2] # <<>>
    /\ Len(clean_id(hosts[1])) + 1 + Len(clean_id(hosts[2])) > 15
    /\ Len(link_id) = 15

\* C7 (as claimed): _derive_interface_name("A_steel_sagamu_3903",
\* "B_other_site_3916") returns "A_steel-B_othe".
C7_SteelExampleTruncated ==
    (LinkReturned /\ hosts = <<HostSteel, HostOther>>)
        => link_id = <<"A", "_", "s", "t", "e", "e", "l", "-", "B", "_", "o", "t", "h", "e">>

\* C7 (amended): _derive_interface_name("A_steel_sagamu_3903",
\* "B_other_site_3916") returns "A_steel-B_other": the full candidate with
\* the remote model has 19 characters, and the candidate without the model
\* has exactly 15 and is returned untruncated.
C7_SteelExampleWithoutModel ==
    (LinkReturned /\ hosts = <<HostSteel, HostOther>>)
        => link_id = <<"A", "_", "s", "t", "e", "e", "l", "-", "B", "_", "o", "t", "h", "e", "r">>

C7_Witness ==
    /\ LinkReturned /\ hosts = <<HostSteel, HostOther>>
    /\ Len(clean_id(HostSteel) \o <<"-">> \o clean_id(HostOther) \o get_model(HostOther)) = 19
    /\ Len(link_id) = 15

(***************************************************************************)
(* Interface derivation and rendering.                                     *)
(***************************************************************************)
\* The roles of the backhaul interfaces, in the order derive builds them.
BackhaulRoles ==
    IF BackhaulOf(dev) = Single THEN <<"single">>
    ELSE IF BackhaulOf(dev) = Dual THEN <<"primary", "secondary">>
    ELSE <<>>

\* _build_interfaces_from_backhaul has ended, by return or by exception.
DeriveEnded == pc \notin {"build_interfaces", "build_secondary", "extend_other"}

DeriveRaised == pc = "raised" /\ error \in {"TypeError", "IndexError"}

\* The backhaul interfaces built so far: other_interfaces are appended only
\* after the last of them.
BuiltBackhaul ==
    1..(IF Len(interfaces) < Len(BackhaulRoles) THEN Len(interfaces) ELSE Len(BackhaulRoles))

OperatorSupplied(name) == Truthy(name) /\ ~StartsWith(name, PortPrefix)

\* C5: derive returns one backhaul InterfaceSpec from the single_* fields
\* for backhaul = single, two (primary_* then secondary_*) for dual, none for
\* any other value, followed by the entries of other_interfaces, unmodified
\* and in their order.
C5_BackhaulThenOthers ==
    DeriveEnded =>
        /\ ~DeriveRaised
        /\ Len(interfaces) = Len(BackhaulRoles) + Len(OrEmptyList(dev.other_interfaces))
        /\ \A k \in 1..Len(BackhaulRoles) :
              /\ interfaces[k].description = "BACKHAUL"
              /\ interfaces[k].ip = dev.ip[BackhaulRoles[k]]
              /\ interfaces[k].vlan = dev.vlan[BackhaulRoles[k]]
              /\ interfaces[k].neighbor_name = dev.neighbor_name[BackhaulRoles[k]]
        /\ \A j \in 1..Len(OrEmptyList(dev.other_interfaces)) :
              interfaces[Len(BackhaulRoles) + j] = dev.other_interfaces.items[j]

\* C8: an operator-supplied {role}_if_name that is non-empty and does not
\* start with "Port_" is the name of that role's InterfaceSpec, with and
\* without a neighbor hostname.
C8_OperatorNameWins ==
    \A k \in BuiltBackhaul :
        OperatorSupplied(dev.if_name[BackhaulRoles[k]])
            => interfaces[k].name = dev.if_name[BackhaulRoles[k]]

C8_Witness ==
    /\ pc = "extend_other" /\ Len(interfaces) = 2
    /\ OperatorSupplied(dev.if_name["primary"])
    /\ interfaces[1].saos10_link_id # <<>>
    /\ interfaces[1].name = dev.if_name["primary"]
    /\ OperatorSupplied(dev.if_name["secondary"])
    /\ ~Truthy(dev.neighbor_name["secondary"])
    /\ interfaces[2].name = dev.if_name["secondary"]

\* C9: derive never fails: no device record, whatever its aggregations
\* list, makes _build_interfaces_from_backhaul raise.
C9_DeriveNeverRaises == ~DeriveRaised

\* C10: when render_template cannot find or process the selected template,
\* render_device still returns text (carrying an error marker) instead of
\* letting the exception reach its caller.
C10_RenderFailureBecomesText ==
    (tpl_used # None /\ pc \in {"returned", "raised"})
        => (pc = "returned" /\ error = "" /\ content # None)

\* C11: every backhaul InterfaceSpec has a name of at most 15 characters,
\* whether the name is the operator-supplied {role}_if_name, the
\* synthesized link identifier or the "Port_" fallback.
C11_NamesAtMost15 ==
    \A k \in BuiltBackhaul : Len(interfaces[k].name) <= 15

(***************************************************************************)
(* Template selection: the lower-specificity candidates.                   *)
(***************************************************************************)
\* No model+software+backhaul, model+software or software-only identifier
\* is in available.
NoSoftwareTemplate ==
    /\ ~(AllThreeGiven /\ Has(IdModelSoftwareBackhaul))
    /\ ~(ArgModel # <<>> /\ ArgSoftware # <<>> /\ Has(IdModelSoftware))
    /\ ~(ArgSoftware # <<>> /\ Has(IdSoftware))

\* The first identifier of a list that is in available, None when none is.
RECURSIVE FirstHeld(_)
FirstHeld(ids) ==
    IF ids = <<>> THEN None
    ELSE IF Has(Head(ids)) THEN Head(ids)
    ELSE FirstHeld(Tail(ids))

\* model+backhaul, model+role, model alone, generic: the order claimed.
LowerFour ==
    (IF ArgModel # <<>> /\ ArgBackhaul # <<>> THEN <<IdModelBackhaul>> ELSE <<>>)
    \o (IF ArgModel # <<>> /\ ArgRole # <<>> THEN <<IdModelRole>> ELSE <<>>)
    \o (IF ArgModel # <<>> THEN <<IdModel>> ELSE <<>>)
    \o <<GenericTemplate>>

\* The same with the two legacy model+backhaul variants after model+backhaul.
LowerSix ==
    (IF ArgModel # <<>> /\ ArgBackhaul # <<>>
     THEN <<IdModelBackhaul, IdLegacyBackhaulWord, IdLegacyUnderscored>> ELSE <<>>)
    \o (IF ArgModel # <<>> /\ ArgRole # <<>> THEN <<IdModelRole>> ELSE <<>>)
    \o (IF ArgModel # <<>> THEN <<IdModel>> ELSE <<>>)
    \o <<GenericTemplate>>

\* C12 (as claimed): when no model+software+backhaul, model+software or
\* software-only identifier is in available, choose_template returns the
\* first of model+backhaul, model+role, model alone, generic that is in
\* available (attributes trimmed, compared exactly).
C12_LowerOrderOfFour ==
    (SelectReturned /\ NoSoftwareTemplate /\ FirstHeld(LowerFour) # None)
        => tpl_used = FirstHeld(LowerFour)

\* C12 (amended): when no model+software+backhaul, model+software or
\* software-only identifier is in available, choose_template returns the
\* first of ciena_{model}_{backhaul}.cfg.j2,
\* ciena_{model}_{backhaul}_backhaul.cfg.j2, ciena_{model}_{backhaul with "-"
\* replaced by "_"}.cfg.j2, ciena_{model}_{role}.cfg.j2, ciena_{model}.cfg.j2,
\* ciena_generic.cfg.j2 that is in available; attributes are trimmed and
\* otherwise compared case-sensitively and exactly.
C12_LowerOrderWithLegacy ==
    (SelectReturned /\ NoSoftwareTemplate /\ FirstHeld(LowerSix) # None)
        => tpl_used = FirstHeld(LowerSix)

C12_Witness ==
    /\ SelectReturned /\ NoSoftwareTemplate
    /\ ArgModel = M3916 /\ args.model # M3916
    /\ ArgBackhaul = Dual /\ ArgRole = Edge
    /\ ~Has(IdModelBackhaul) /\ Has(IdModelRole) /\ Has(IdModel)
    /\ tpl_used = IdModelRole

\* Exact comparison: a role differing only in case does not select the
\* model+role template.
C12_WitnessCase ==
    /\ SelectReturned /\ NoSoftwareTemplate
    /\ ArgModel = M3916 /\ ArgRole = EdgeCapital /\ ArgBackhaul = <<>>
    /\ Has(TplPrefix \o M3916 \o <<"_">> \o Edge \o TplSuffix) /\ Has(IdModel)
    /\ tpl_used = IdModel

(***************************************************************************)
(* Link identifiers: the three candidates.                                 *)
(***************************************************************************)
LocalToken == clean_id(hosts[1])

RemoteToken == clean_id(hosts[2])

RemoteModel == get_model(hosts[2])

FirstChars(s, n) == IF Len(s) <= n THEN s ELSE SubSeq(s, 1, n)

CandidateA == LocalToken \o <<"-">> \o RemoteToken \o RemoteModel

CandidateB == LocalToken \o <<"-">> \o RemoteToken

CandidateC == FirstChars(LocalToken, 7) \o <<"-">> \o FirstChars(RemoteToken, 7)

BothHostsGiven == hosts[1] # <<>> /\ hosts[2] # <<>>

\* C13: for non-empty hostnames _derive_interface_name returns candidate (a)
\* localToken-remoteToken+remoteModel when it has at most 15 characters,
\* else (b) localToken-remoteToken when that has at most 15, else (c) the
\* first 7 characters of each token joined by "-"; and
\* ("NGA-AJO-CNA5130-01", "NGA-IKJ-CNA8114-01") gives "AJO-IKJ8114".
C13_FirstFitOfThree ==
    (LinkReturned /\ BothHostsGiven) =>
        /\ Len(CandidateA) <= 15 => link_id = CandidateA
        /\ (Len(CandidateA) > 15 /\ Len(CandidateB) <= 15) => link_id = CandidateB
        /\ Len(CandidateB) > 15 => link_id = CandidateC
        /\ hosts = <<HostAjo, HostIkj>> => link_id = <<"A", "J", "O", "-", "I", "K", "J", "8", "1", "1", "4">>

\* Candidate (b) chosen at exactly 15 characters.
C13_Witness ==
    /\ LinkReturned /\ BothHostsGiven
    /\ Len(CandidateA) > 15 /\ Len(CandidateB) = 15
    /\ link_id = CandidateB

\* Candidate (c) chosen, with both tokens cut.
C13_WitnessTruncated ==
    /\ LinkReturned /\ BothHostsGiven
    /\ Len(LocalToken) > 7 /\ Len(RemoteToken) > 7
    /\ link_id = CandidateC

(***************************************************************************)
(* Interface derivation: names, link identifiers and ports.                *)
(***************************************************************************)
\* The physical port of a role: a list reduced to its first member.
KnownPort(r) ==
    IF dev.port[r].is_list
    THEN (IF Len(dev.port[r].members) = 0 THEN <<>> ELSE Head(dev.port[r].members))
    ELSE (IF dev.port[r].value = None THEN <<>> ELSE dev.port[r].value)

NeighborPresent(r) == Truthy(dev.neighbor_name[r])

\* deriveLinkId(hostname, neighbor), empty without a neighbor hostname.
Synthesized(r) ==
    IF NeighborPresent(r)
    THEN derive_interface_name(dev.hostname, dev.neighbor_name[r])
    ELSE <<>>

FallbackName(r) ==
    IF Truthy(dev.if_name[r]) THEN dev.if_name[r]
    ELSE IF KnownPort(r) # <<>> THEN <<"P", "o", "r", "t", "_">> \o KnownPort(r)
    ELSE <<"P", "o", "r", "t", "_", "B", "H">>

\* C14: when {role}_if_name is empty or starts with "Port_", the name is the
\* synthesized identifier if a neighbor hostname is present and the
\* identifier is non-empty, otherwise the explicit name if non-empty, else
\* "Port_" + port if a port is known, else "Port_BH"; saos10_link_id always
\* carries the synthesized identifier, empty without a neighbor hostname.
C14_NameResolution ==
    \A k \in BuiltBackhaul :
        LET r == BackhaulRoles[k]
        IN  /\ ~OperatorSupplied(dev.if_name[r]) =>
                   interfaces[k].name =
                       IF NeighborPresent(r) /\ Synthesized(r) # <<>>
                       THEN Synthesized(r)
                       ELSE FallbackName(r)
            /\ interfaces[k].saos10_link_id = Synthesized(r)
            /\ ~NeighborPresent(r) => interfaces[k].saos10_link_id = <<>>
            /\ (dev.hostname = HostAjo /\ dev.neighbor_name[r] = HostIkj)
                   => interfaces[k].saos10_link_id = <<"A", "J", "O", "-", "I", "K", "J", "8", "1", "1", "4">>

C14_Witness ==
    /\ pc = "extend_other" /\ Len(interfaces) = 2
    /\ dev.if_name["primary"] = <<"P", "o", "r", "t", "_", "1">>
    /\ interfaces[1].name = <<"A", "J", "O", "-", "I", "K", "J", "8", "1", "1", "4">>
    /\ dev.if_name["secondary"] = None /\ ~NeighborPresent("secondary")
    /\ interfaces[2].name = <<"P", "o", "r", "t", "_", "3">>
    /\ interfaces[2].saos10_link_id = <<>>

\* The same device record with aggregation disabled.
WithoutAggregation == [dev EXCEPT !.aggregation_enabled = FALSE]

\* C15: the port of a backhaul InterfaceSpec is the aggregation group's name
\* when aggregation is enabled and backhaul is single, the name of
\* aggregations[0] (primary) or aggregations[1] (secondary) when it is
\* enabled and backhaul is dual, and otherwise the physical port, a list
\* reduced to its first member ("" for an empty list); name and
\* saos10_link_id are what they are with aggregation disabled.
C15_PortOfInterface ==
    \A k \in BuiltBackhaul :
        LET r == BackhaulRoles[k]
        IN  /\ (dev.aggregation_enabled /\ BackhaulOf(dev) = Single)
                   => interfaces[k].port = dev.aggregation_name
            /\ (dev.aggregation_enabled /\ BackhaulOf(dev) = Dual)
                   => interfaces[k].port = dev.aggregations.items[k].name
            /\ ~dev.aggregation_enabled => interfaces[k].port = KnownPort(r)
            /\ interfaces[k].name = create_iface(WithoutAggregation, r, k - 1).name
            /\ interfaces[k].saos10_link_id =
                   create_iface(WithoutAggregation, r, k - 1).saos10_link_id

C15_Witness ==
    /\ pc = "extend_other" /\ Len(interfaces) = 2
    /\ dev.aggregation_enabled
    /\ dev.port["primary"].is_list /\ dev.port["secondary"].is_list
    /\ interfaces[1].port = <<"P", "r", "i", "m", "a", "r", "y", "A", "g", "g">>
    /\ interfaces[2].port = None
    /\ interfaces[1].name = <<"A", "J", "O", "-", "I", "K", "J", "8", "1", "1", "4">>

\* A list-valued port without aggregation: its first member is the port.
C15_WitnessListPort ==
    /\ pc = "extend_other" /\ Len(interfaces) = 1
    /\ ~dev.aggregation_enabled
    /\ dev.port["single"].is_list /\ Len(dev.port["single"].members) = 2
    /\ interfaces[1].port = <<"3">>

(***************************************************************************)
(* Hostname tokens, as the specification words them.                       *)
(***************************************************************************)
RECURSIVE Before(_, _)
Before(s, sep) ==
    IF s = <<>> \/ Head(s) = sep THEN <<>>
    ELSE <<Head(s)>> \o Before(Tail(s), sep)

RECURSIVE After(_, _)
After(s, sep) ==
    IF s = <<>> THEN <<>>
    ELSE IF Head(s) = sep THEN Tail(s)
    ELSE After(Tail(s), sep)

Count(s, sep) == Cardinality({i \in 1..Len(s) : s[i] = sep})

EndsWithModelSuffix(s) ==
    /\ Len(s) >= 5
    /\ s[Len(s) - 4] = "_"
    /\ \/ s[Len(s) - 3] = "3" /\ s[Len(s) - 2] = "9"
       \/ s[Len(s) - 3] = "5" /\ s[Len(s) - 2] = "1"
       \/ s[Len(s) - 3] = "8" /\ s[Len(s) - 2] = "1"
    /\ s[Len(s) - 1] \in Digits /\ s[Len(s)] \in Digits

EndsWithIndexSuffix(s) ==
    /\ Len(s) >= 3
    /\ s[Len(s) - 2] \in {"_", "-"}
    /\ s[Len(s) - 1] = "0"
    /\ s[Len(s)] \in Digits

\* The hostname without its trailing run of suffixes.
RECURSIVE Unsuffixed(_)
Unsuffixed(s) ==
    IF EndsWithModelSuffix(s) THEN Unsuffixed(SubSeq(s, 1, Len(s) - 5))
    ELSE IF EndsWithIndexSuffix(s) THEN Unsuffixed(SubSeq(s, 1, Len(s) - 3))
    ELSE s

SiteToken(h) ==
    LET second == Before(After(h, "-"), "-")
    IN  IF Count(h, "-") >= 2 /\ Len(second) = 3 /\ \A i \in 1..3 : second[i] \in Letters
        THEN second
        ELSE LET rest == Unsuffixed(h)
                 first == Before(rest, "_")
             IN  IF Count(rest, "_") >= 1 /\ Len(first) = 1
                 THEN first \o <<"_">> \o Before(After(rest, "_"), "_")
                 ELSE first

RECURSIVE ModelToken(_)
ModelToken(h) ==
    IF Len(h) < 4 THEN <<>>
    ELSE IF \A i \in 1..4 : h[i] \in Digits THEN SubSeq(h, 1, 4)
    ELSE ModelToken(Tail(h))

\* C16: clean_id of a hostname is its second dash-separated part when there
\* are at least 3 parts and that part is 3 letters; otherwise the trailing
\* run of _39dd, _51dd, _81dd, _0d, -0d suffixes is stripped and the result
\* is the first two underscore-separated parts joined by "_" when the first
\* is a single character, else the first part.  get_model is the first run
\* of 4 consecutive digits, or empty.
C16_HostnameTokens ==
    /\ \A n \in 1..2 :
          hosts[n] # <<>> =>
              /\ clean_id(hosts[n]) = SiteToken(hosts[n])
              /\ get_model(hosts[n]) = ModelToken(hosts[n])
    /\ (LinkReturned /\ BothHostsGiven
            /\ Len(SiteToken(hosts[1])) + Len(SiteToken(hosts[2]))
                   + Len(ModelToken(hosts[2])) <= 14)
          => link_id = SiteToken(hosts[1]) \o <<"-">> \o SiteToken(hosts[2])
                           \o ModelToken(hosts[2])
    /\ hosts[1] = HostAjo => clean_id(hosts[1]) = <<"A", "J", "O">>
    /\ hosts[1] = HostSteel => clean_id(hosts[1]) = <<"A", "_", "s", "t", "e", "e", "l">>
    /\ hosts[1] = HostLong =>
          /\ clean_id(hosts[1]) = <<"S", "a", "g", "a", "m", "u", "r", "o", "a", "d">>
          /\ get_model(hosts[1]) = <<"5", "1", "4", "2">>

C16_Witness ==
    /\ LinkReturned
    /\ hosts = <<HostAjo, HostSteel>>
    /\ link_id = <<"A", "J", "O", "-", "A", "_", "s", "t", "e", "e", "l", "3", "9", "0", "3">>

\* A hostname whose whole tail is a run of two suffixes.
C16_WitnessSuffixRun ==
    /\ LinkReturned
    /\ hosts[1] = <<"A">> \o <<"_", "3", "9", "0", "3">>
    /\ hosts[2] = HostLong
    /\ link_id = <<"A", "-", "S", "a", "g", "a", "m", "u", "r", "o", "a", "d">>

====
